---- MODULE Spec2Model ----
(***************************************************************************)
(* Model of mrjob/tools/emr/s3_tmpwatch.py: main(), S3_cleanup() and       *)
(* process_time().  One run of the tool is one pass of the program counter *)
(* pc from "start" to one of the terminal positions.  Strings are          *)
(* sequences of one-character strings.  Durations and clock readings are   *)
(* whole minutes (the resolution of the smallest unit process_time knows). *)
(***************************************************************************)
EXTENDS Integers, Sequences, FiniteSets, TLC

VARIABLES
    args,        \* positional command-line arguments (URIs), in order
    options,     \* parsed options: quiet, test, time
    pc,          \* position of the run
    handlers,    \* loggers that have a stream handler attached
    time_old,    \* result of process_time(options.time)
    argi,        \* number of arguments the loop of main() has taken
    paths,       \* the listing runner.ls(glob_path) returned
    pathi,       \* number of resolved paths the outer loop has taken
    keys,        \* the listing bucket.list(key_name) returned
    keyi,        \* number of keys the inner loop has taken
    store,       \* the object store: the set of keys present
    now,         \* the reading datetime.now() returns
    trace,       \* history: storage calls and log records, in program order
    stderr,      \* history: the log lines that reached the user
    store0,      \* history: the store when the first run started
    now0,        \* history: the clock when the first run started
    run,         \* number of the current invocation of the tool
    prev         \* history: the candidate list of the previous invocation

vars == <<args, options, pc, handlers, time_old, argi, paths, pathi, keys,
          keyi, store, now, trace, stderr, store0, now0, run, prev>>

\* ---------------------------------------------------------------- bounds
MaxArgs == 2      \* longest argument list
MaxTicks == 2     \* how far the clock may advance over the modelled runs
MaxLen == 3       \* longest --time string of the parsing specification
MaxRuns == 2      \* invocations of the tool in the repeated-run specification

\* ---------------------------------------------------------------- strings
Digits == {"0", "1", "2", "3"}

DigitVal(c) == CASE c = "0" -> 0 [] c = "1" -> 1 [] c = "2" -> 2 [] c = "3" -> 3

IsDigits(s) == Len(s) > 0 /\ \A i \in 1..Len(s) : s[i] \in Digits

RECURSIVE DecimalValue(_)
DecimalValue(s) ==
    IF s = <<>> THEN 0
    ELSE 10 * DecimalValue(SubSeq(s, 1, Len(s) - 1)) + DigitVal(s[Len(s)])

\* int(s) of Python on the modelled alphabet: an optional sign and at least
\* one digit, anything else raises ValueError.
PyInt(s) ==
    IF IsDigits(s) THEN [ok |-> TRUE, val |-> DecimalValue(s)]
    ELSE IF Len(s) > 1 /\ s[1] = "-" /\ IsDigits(Tail(s))
         THEN [ok |-> TRUE, val |-> 0 - DecimalValue(Tail(s))]
    ELSE [ok |-> FALSE, val |-> 0]

\* timedelta(minutes=n), timedelta(hours=n), timedelta(days=n): timedelta
\* normalises every unit to one value, here whole minutes.
MinutesPerHour == 60
MinutesPerDay == 1440

Raised(exc) == [ok |-> FALSE, minutes |-> 0, exc |-> exc]
Timedelta(perUnit, n) ==
    IF n.ok THEN [ok |-> TRUE, minutes |-> perUnit * n.val, exc |-> "none"]
    ELSE Raised("ValueError")

ProcessTimeDefaultMinutes(time) ==
    IF time = <<>> THEN Raised("IndexError")
    ELSE LET last == time[Len(time)]
             front == SubSeq(time, 1, Len(time) - 1)
         IN IF last = "m" THEN Timedelta(1, PyInt(front))
            ELSE IF last = "h" THEN Timedelta(MinutesPerHour, PyInt(front))
            ELSE IF last = "d" THEN Timedelta(MinutesPerDay, PyInt(front))
            ELSE Timedelta(1, PyInt(time))

ProcessTime(time) ==
    IF time = <<>> THEN Raised("IndexError")
    ELSE LET last == time[Len(time)]
             front == SubSeq(time, 1, Len(time) - 1)
         IN IF last = "m" THEN Timedelta(1, PyInt(front))
            ELSE IF last = "h" THEN Timedelta(MinutesPerHour, PyInt(front))
            ELSE IF last = "d" THEN Timedelta(MinutesPerDay, PyInt(front))
            ELSE Timedelta(MinutesPerHour, PyInt(time))

DEFAULT_TIME_OLD == <<"3", "0", "d">>

\* ------------------------------------------------------- the object store
Bucket == "bkt"

\* Every key the bucket may hold, in the order a listing returns them.
AllKeys == << <<"a">>, <<"a", "b">> >>

KeyNames == {AllKeys[i] : i \in 1..Len(AllKeys)}

\* Values of last_modified, after strptime and replace(tzinfo=None).
ThirtyDaysBefore == 2 - 43200
LastModifiedValues == {0, 2, ThirtyDaysBefore}

StoreObjects == [name : KeyNames, last_modified : LastModifiedValues]

\* A store holds each key at most once.
Stores ==
    {s \in SUBSET StoreObjects :
        \A x \in s, y \in s : x.name = y.name => x = y}

IsPrefix(p, s) == Len(p) <= Len(s) /\ SubSeq(s, 1, Len(p)) = p

S3Uri(bucket, key) == <<bucket>> \o key

\* parse_s3_uri(uri) -> (bucket_name, key_name)
ParseS3Uri(uri) == [bucket_name |-> Head(uri), key_name |-> Tail(uri)]

\* bucket.list(prefix): the objects whose key starts with prefix, in key order.
BucketList(st, bucket_name, key_name) ==
    LET Obj(i) == CHOOSE o \in st : o.name = AllKeys[i]
        Hit(i) == /\ bucket_name = Bucket
                  /\ \E o \in st : o.name = AllKeys[i]
                  /\ IsPrefix(key_name, AllKeys[i])
        F[i \in 0..Len(AllKeys)] ==
            IF i = 0 THEN <<>>
            ELSE IF Hit(i) THEN Append(F[i - 1], Obj(i)) ELSE F[i - 1]
    IN F[Len(AllKeys)]

\* runner.ls(glob_path): the URI of every object the glob resolves to.
Ls(st, glob_path) ==
    LET p == ParseS3Uri(glob_path)
        l == BucketList(st, p.bucket_name, p.key_name)
    IN [i \in 1..Len(l) |-> S3Uri(p.bucket_name, l[i].name)]

\* ------------------------------------------------------------- the inputs
Uris == {S3Uri(Bucket, k) : k \in KeyNames}

ArgLists == UNION {[1..n -> Uris] : n \in 0..MaxArgs}

TimeArgs == {<<"1", "m">>, <<"2", "m">>, DEFAULT_TIME_OLD, <<"d">>, <<>>}

Alphabet == {"1", "2", "m", "h", "d", "a", "-"}

TimeStrings == UNION {[1..n -> Alphabet] : n \in 1..MaxLen}

\* --verbose only picks DEBUG over INFO for the mrjob handler and --conf-path
\* only reaches EMRJobRunner; neither changes a step below.
Options == [quiet : BOOLEAN, test : BOOLEAN, time : TimeArgs]

\* ------------------------------------------------------ pieces of the code
\* main(): "if not args"
NoArgsNever(a) == FALSE
NoArgs(a) == a = <<>>

\* main(): "for path in args" takes the arguments in this order.
ArgOrderReversed(a) == [i \in 1..Len(a) |-> Len(a) + 1 - i]
ArgOrder(a) == [i \in 1..Len(a) |-> i]

\* S3_cleanup(): "if time_delta > time_old"
QualifiesAtThreshold(delta, threshold) == delta >= threshold
QualifiesYounger(delta, threshold) == delta < threshold
Qualifies(delta, threshold) == delta > threshold

\* S3_cleanup(): "if not dry_run"
ShouldDeleteAlways(dry_run) == TRUE
ShouldDeleteInverted(dry_run) == dry_run
ShouldDelete(dry_run) == ~dry_run

\* Neither main() nor S3_cleanup() catches anything: an exception raised by
\* a storage call ends the run, whatever the code would have done next.
RaiseSwallowed(resume) == resume
Raise(resume) == "storage_error"

\* main(): "if not options.quiet: log_to_stream(name='mrjob', ...)" and
\* log_to_stream(name='boto', level=logging.CRITICAL)
LoggingSetup(quiet) == (IF ~quiet THEN {"mrjob"} ELSE {}) \cup {"boto"}

\* log.info(...) on logger mrjob.tools.emr.s3_tmpwatch: the record is made,
\* and it reaches the user only through a handler of the mrjob logger.
LogInfoDropped(tr, e) == tr
LogInfo(tr, e) == Append(tr, e)

Emit(out, h, e) == IF "mrjob" \in h THEN Append(out, e) ELSE out

Terminal == {"done", "usage_error", "parse_error", "storage_error"}

StorageEvents == {"connect", "ls", "get_bucket", "list", "delete"}

Unset == Raised("unset")

\* The argument S3_cleanup() is working on.
CurArg == ArgOrder(args)[argi]
GlobPath == args[CurArg]

Event(ev, key, delta, ok) ==
    [ev |-> ev, arg |-> CurArg, uri |-> GlobPath, path |-> pathi,
     key |-> key, delta |-> delta, ok |-> ok]

\* ------------------------------------------------------------------ Init
Init ==
    /\ args \in ArgLists
    /\ options \in Options
    /\ store \in Stores
    /\ now = 2
    /\ pc = "start"
    /\ handlers = {}
    /\ time_old = Unset
    /\ argi = 0
    /\ paths = <<>>
    /\ pathi = 0
    /\ keys = <<>>
    /\ keyi = 0
    /\ trace = <<>>
    /\ stderr = <<>>
    /\ store0 = store
    /\ now0 = now
    /\ run = 1
    /\ prev = <<>>

\* --------------------------------------------------------------- main()
Main_ParseArgs ==
    /\ pc = "start"
    /\ pc' = IF NoArgs(args) THEN "usage_error" ELSE "logging"
    /\ UNCHANGED <<args, options, handlers, time_old, argi, paths, pathi, keys,
                   keyi, store, now, trace, stderr, store0, now0, run, prev>>

Main_SetupLogging ==
    /\ pc = "logging"
    /\ handlers' = LoggingSetup(options.quiet)
    /\ pc' = "parse_time"
    /\ UNCHANGED <<args, options, time_old, argi, paths, pathi, keys,
                   keyi, store, now, trace, stderr, store0, now0, run, prev>>

Main_ProcessTime ==
    /\ pc = "parse_time"
    /\ time_old' = ProcessTime(options.time)
    /\ pc' = IF time_old'.ok THEN "loop" ELSE "parse_error"
    /\ UNCHANGED <<args, options, handlers, argi, paths, pathi, keys,
                   keyi, store, now, trace, stderr, store0, now0, run, prev>>

Main_NextArg ==
    /\ pc = "loop"
    /\ IF argi < Len(args)
       THEN argi' = argi + 1 /\ pc' = "connect"
       ELSE argi' = argi /\ pc' = "done"
    /\ UNCHANGED <<args, options, handlers, time_old, paths, pathi, keys,
                   keyi, store, now, trace, stderr, store0, now0, run, prev>>

\* ----------------------------------------------------------- S3_cleanup()
S3_Connect ==
    /\ pc = "connect"
    /\ \E ok \in BOOLEAN :
        LET c == Event("connect", <<>>, 0, ok)
            e == Event("info_start", <<>>, 0, TRUE)
        IN IF ok
           THEN /\ trace' = LogInfo(Append(trace, c), e)
                /\ stderr' = Emit(stderr, handlers, e)
                /\ pc' = "ls"
           ELSE /\ trace' = Append(trace, c)
                /\ stderr' = stderr
                /\ pc' = Raise("loop")
    /\ paths' = <<>> /\ pathi' = 0 /\ keys' = <<>> /\ keyi' = 0
    /\ UNCHANGED <<args, options, handlers, time_old, argi, store, now,
                   store0, now0, run, prev>>

S3_Ls ==
    /\ pc = "ls"
    /\ \E ok \in BOOLEAN :
        /\ trace' = Append(trace, Event("ls", <<>>, 0, ok))
        /\ IF ok
           THEN paths' = Ls(store, GlobPath) /\ pc' = "next_path"
           ELSE paths' = paths /\ pc' = Raise("loop")
    /\ UNCHANGED <<args, options, handlers, time_old, argi, pathi, keys, keyi,
                   store, now, stderr, store0, now0, run, prev>>

S3_NextPath ==
    /\ pc = "next_path"
    /\ IF pathi < Len(paths)
       THEN pathi' = pathi + 1 /\ pc' = "get_bucket"
       ELSE pathi' = pathi /\ pc' = "loop"
    /\ UNCHANGED <<args, options, handlers, time_old, argi, paths, keys, keyi,
                   store, now, trace, stderr, store0, now0, run, prev>>

S3_GetBucket ==
    /\ pc = "get_bucket"
    /\ \E ok \in BOOLEAN :
        /\ trace' = Append(trace, Event("get_bucket", <<>>, 0, ok))
        /\ pc' = IF ok THEN "list" ELSE Raise("next_path")
    /\ UNCHANGED <<args, options, handlers, time_old, argi, paths, pathi, keys,
                   keyi, store, now, stderr, store0, now0, run, prev>>

S3_List ==
    /\ pc = "list"
    /\ \E ok \in BOOLEAN :
        LET p == ParseS3Uri(paths[pathi])
        IN /\ trace' = Append(trace, Event("list", p.key_name, 0, ok))
           /\ IF ok
              THEN /\ keys' = BucketList(store, p.bucket_name, p.key_name)
                   /\ keyi' = 0
                   /\ pc' = "next_key"
              ELSE /\ keys' = keys /\ keyi' = keyi
                   /\ pc' = Raise("next_path")
    /\ UNCHANGED <<args, options, handlers, time_old, argi, paths, pathi,
                   store, now, stderr, store0, now0, run, prev>>

S3_NextKey ==
    /\ pc = "next_key"
    /\ IF keyi < Len(keys)
       THEN LET key == keys[keyi + 1]
                time_delta == now - key.last_modified
                e == Event("info_delete", key.name, time_delta, TRUE)
            IN /\ keyi' = keyi + 1
               /\ IF Qualifies(time_delta, time_old.minutes)
                  THEN /\ trace' = LogInfo(trace, e)
                       /\ stderr' = Emit(stderr, handlers, e)
                       /\ pc' = IF ShouldDelete(options.test)
                                THEN "delete" ELSE "next_key"
                  ELSE UNCHANGED <<trace, stderr, pc>>
       ELSE /\ pc' = "next_path"
            /\ UNCHANGED <<keyi, trace, stderr>>
    /\ UNCHANGED <<args, options, handlers, time_old, argi, paths, pathi, keys,
                   store, now, store0, now0, run, prev>>

S3_Delete ==
    /\ pc = "delete"
    /\ \E ok \in BOOLEAN :
        LET key == keys[keyi]
        IN /\ trace' = Append(trace, Event("delete", key.name, 0, ok))
           /\ IF ok
              THEN /\ store' = {o \in store : o.name # key.name}
                   /\ pc' = "next_key"
              ELSE /\ store' = store
                   /\ pc' = Raise("next_key")
    /\ UNCHANGED <<args, options, handlers, time_old, argi, paths, pathi, keys,
                   keyi, now, stderr, store0, now0, run, prev>>

\* Time passes; the program sees it when it reads datetime.now() for a key.
Tick ==
    /\ pc = "next_key"
    /\ keyi < Len(keys)
    /\ now < now0 + MaxTicks
    /\ now' = now + 1
    /\ UNCHANGED <<args, options, pc, handlers, time_old, argi, paths, pathi,
                   keys, keyi, store, trace, stderr, store0, now0, run, prev>>

Next ==
    \/ Main_ParseArgs
    \/ Main_SetupLogging
    \/ Main_ProcessTime
    \/ Main_NextArg
    \/ S3_Connect
    \/ S3_Ls
    \/ S3_NextPath
    \/ S3_GetBucket
    \/ S3_List
    \/ S3_NextKey
    \/ S3_Delete
    \/ Tick

Spec == Init /\ [][Next]_vars

\* The deletion candidates a run reported, in order.
IsReport(e) == e.ev = "info_delete"
Candidates(tr) ==
    LET s == SelectSeq(tr, IsReport) IN [i \in 1..Len(s) |-> s[i].key]

\* The tool is started again on the same command line after a completed
\* dry run: a new process, the same store, a clock that has not gone back.
Rerun ==
    /\ pc = "done"
    /\ options.test
    /\ run < MaxRuns
    /\ run' = run + 1
    /\ prev' = Candidates(trace)
    /\ \E t \in now..(now0 + MaxTicks) : now' = t
    /\ pc' = "start"
    /\ handlers' = {}
    /\ time_old' = Unset
    /\ argi' = 0 /\ paths' = <<>> /\ pathi' = 0 /\ keys' = <<>> /\ keyi' = 0
    /\ trace' = <<>> /\ stderr' = <<>>
    /\ UNCHANGED <<args, options, store, store0, now0>>

NextTwice == Next \/ Rerun

SpecTwice == Init /\ [][NextTwice]_vars

\* process_time() on every string of the alphabet up to MaxLen characters:
\* the run stands at line 45, with one argument and logging set up.
InitParse ==
    /\ args = << S3Uri(Bucket, <<"a">>) >>
    /\ options \in [quiet : {FALSE}, test : {FALSE}, time : TimeStrings]
    /\ store = {[name |-> <<"a">>, last_modified |-> 0]}
    /\ now = 2
    /\ pc = "parse_time"
    /\ handlers = LoggingSetup(FALSE)
    /\ time_old = Unset
    /\ argi = 0
    /\ paths = <<>>
    /\ pathi = 0
    /\ keys = <<>>
    /\ keyi = 0
    /\ trace = <<>>
    /\ stderr = <<>>
    /\ store0 = store
    /\ now0 = now
    /\ run = 1
    /\ prev = <<>>

NextParse == Main_ProcessTime

SpecParse == InitParse /\ [][NextParse]_vars

\* ------------------------------------------------------ history operators
Indices(ev) == {i \in 1..Len(trace) : trace[i].ev = ev}
IndicesOf(ev, name) == {i \in Indices(ev) : trace[i].key = name}
DeleteCalls(name) == Cardinality(IndicesOf("delete", name))
Reports(name) == Cardinality(IndicesOf("info_delete", name))
StorageCalls == {i \in 1..Len(trace) : trace[i].ev \in StorageEvents}

\* o lies under one of the command line's URIs
Covered(o) ==
    \E i \in 1..Len(args) : IsPrefix(ParseS3Uri(args[i]).key_name, o.name)

\* ------------------------------------------------------------------ claims

\* C1: in a run with dry_run = TRUE (--test) no delete call is ever issued,
\* whatever the arguments, listings, ages and threshold, and the store stays
\* the store the run started with.
DryRunSafety ==
    options.test => (Indices("delete") = {} /\ store = store0)

\* a completed dry run over two arguments that reported a candidate
DryRunSafetyWitness ==
    /\ options.test
    /\ pc = "done"
    /\ Len(args) = 2
    /\ Indices("info_delete") # {}

\* C2: an execute run (dry_run = FALSE) never issues more than one delete
\* call for an object, and one that completes has issued exactly one for
\* every object under its URIs that was older than the threshold when the
\* run started, none for an object outside its URIs or still not older than
\* the threshold when it ended, and the objects gone from the store are
\* those it issued a delete for; overlapping resolved paths included.
ExecuteExactlyOnce ==
    ~options.test =>
        /\ \A name \in KeyNames : DeleteCalls(name) <= 1
        /\ pc = "done" =>
            \A o \in store0 :
                /\ (Covered(o) /\ now0 - o.last_modified > time_old.minutes)
                      => DeleteCalls(o.name) = 1
                /\ (~Covered(o) \/ now - o.last_modified <= time_old.minutes)
                      => DeleteCalls(o.name) = 0
                /\ (DeleteCalls(o.name) = 1) <=> (o \notin store)

\* a completed execute run whose first URI resolved to both keys, one a
\* prefix of the other: both were deleted under the first resolved path and
\* the second resolved path was listed all the same
ExecuteExactlyOnceWitness ==
    /\ ~options.test
    /\ pc = "done"
    /\ args[1] = S3Uri(Bucket, <<"a">>)
    /\ \A name \in KeyNames :
          \E i \in IndicesOf("delete", name) : trace[i].arg = 1 /\ trace[i].path = 1
    /\ \E i \in Indices("list") : trace[i].arg = 1 /\ trace[i].path = 2

\* C3: an object is reported or deleted only when now - last_modified is
\* strictly greater than the threshold; an object whose age is equal to the
\* threshold or below it has no report and no delete call and is still in
\* the store.
StrictAgeFilter ==
    /\ \A i \in Indices("info_delete") : trace[i].delta > time_old.minutes
    /\ time_old.ok =>
          \A o \in store0 :
              now - o.last_modified <= time_old.minutes
                  => /\ o \in store
                     /\ Reports(o.name) = 0
                     /\ DeleteCalls(o.name) = 0

\* a completed execute run that listed an object aged the threshold exactly
\* and left it, and deleted an older one
StrictAgeFilterWitness ==
    /\ ~options.test
    /\ pc = "done"
    /\ \E o \in store0, q \in store0 :
          /\ now - o.last_modified = time_old.minutes
          /\ Covered(o)
          /\ o \in store
          /\ now - q.last_modified > time_old.minutes
          /\ q \notin store

\* C4: process_time on a non-empty string looks at the last character: N
\* minutes for <N>m, N hours for <N>h, N days for <N>d, N hours for a bare
\* <N>; when the integer part is missing or no integer, an error and no
\* duration.
DurationParsing ==
    pc # "parse_time" =>
        LET time == options.time
            last == time[Len(time)]
            front == SubSeq(time, 1, Len(time) - 1)
            n == IF last \in {"m", "h", "d"} THEN PyInt(front) ELSE PyInt(time)
            perUnit == CASE last = "m" -> 1
                         [] last = "h" -> 60
                         [] last = "d" -> 24 * 60
                         [] OTHER -> 60
        IN IF n.ok
           THEN /\ pc = "loop"
                /\ time_old.ok
                /\ time_old.minutes = perUnit * n.val
           ELSE /\ pc = "parse_error"
                /\ ~time_old.ok

\* the bare integer "12" came out as 12 hours
DurationParsingWitness ==
    /\ options.time = <<"1", "2">>
    /\ pc = "loop"
    /\ time_old.minutes = 720

\* C5: a storage call is made only after at least one URI was given and the
\* --time value was parsed; with no URI or a malformed --time value the run
\* ends with an error and has made no storage call.
MalformedTimes == {<<"d">>, <<>>}

ValidateBeforeAccess ==
    /\ StorageCalls # {} => (args # <<>> /\ time_old.ok)
    /\ (args = <<>> \/ options.time \in MalformedTimes) =>
          /\ StorageCalls = {}
          /\ pc \in Terminal => pc \in {"usage_error", "parse_error"}

\* a run over two URIs and a non-empty store that ended at the malformed
\* --time value
ValidateBeforeAccessWitness ==
    /\ pc = "parse_error"
    /\ Len(args) = 2
    /\ store # {}
    /\ options.time = <<"d">>

\* C6: a failed storage call (connection, listing, delete) is the last call
\* of the run: nothing is issued after it, the run ends in the error and not
\* as completed, and what was deleted before stays deleted.
FailFast ==
    /\ \A i \in 1..Len(trace) : ~trace[i].ok => i = Len(trace)
    /\ (\E i \in 1..Len(trace) : ~trace[i].ok) <=> pc = "storage_error"
    /\ \A i \in Indices("delete") :
          trace[i].ok => \A o \in store : o.name # trace[i].key

\* a run that deleted one object, then failed, and left a qualifying object
\* of its URIs behind
FailFastWitness ==
    /\ pc = "storage_error"
    /\ \E i \in Indices("delete") : trace[i].ok
    /\ \E o \in store :
          Covered(o) /\ now - o.last_modified > time_old.minutes

\* C7: every storage call for the i-th argument comes before every storage
\* call for the (i+1)-th, the arguments are taken in command-line order, and
\* no two arguments are ever both partly processed.
SequentialPaths ==
    /\ \A i \in StorageCalls, j \in StorageCalls :
          i < j => trace[i].arg <= trace[j].arg
    /\ \A i \in StorageCalls :
          /\ trace[i].arg <= argi
          /\ \A a \in 1..(trace[i].arg - 1) :
                \E j \in StorageCalls : j < i /\ trace[j].arg = a

\* a completed run that listed and deleted under its first argument and
\* listed under its second
SequentialPathsWitness ==
    /\ pc = "done"
    /\ Len(args) = 2
    /\ \E i \in Indices("delete") : trace[i].arg = 1
    /\ \E i \in Indices("list") : trace[i].arg = 2

\* C8: with -q/--quiet the line of every deleted or would-be-deleted object
\* still reaches the user.
QuietStillReports ==
    options.quiet =>
        \A name \in KeyNames :
            Cardinality({i \in 1..Len(stderr) :
                stderr[i].ev = "info_delete" /\ stderr[i].key = name})
              = Reports(name)

\* C9 as stated: a second dry run on the same arguments and an untouched
\* store reports the candidate list the first one reported.
DryRunIdempotent ==
    (options.test /\ run > 1 /\ pc = "done") => Candidates(trace) = prev

\* C9 as amended: with a clock that does not go back, the second dry run
\* reports every object at least as often as the first, leaves the store as
\* it was, and reports the same list when the clock has not advanced.
Times(seq, name) == Cardinality({i \in 1..Len(seq) : seq[i] = name})

DryRunMonotone ==
    (options.test /\ run > 1 /\ pc = "done") =>
        /\ \A name \in KeyNames :
              Times(prev, name) <= Times(Candidates(trace), name)
        /\ store = store0
        /\ now = now0 => Candidates(trace) = prev

\* a second dry run that reported more than the first, which had reported
\* something
DryRunMonotoneWitness ==
    /\ options.test
    /\ run > 1
    /\ pc = "done"
    /\ prev # <<>>
    /\ Len(Candidates(trace)) > Len(prev)

\* C10 as stated: in both modes one Deleting record per qualifying object
\* and none for the others, and every delete call right after the record of
\* its object.
ReportExactlyOnce ==
    /\ \A name \in KeyNames : Reports(name) <= 1
    /\ \A i \in Indices("info_delete") : trace[i].delta > time_old.minutes
    /\ \A i \in Indices("delete") :
          /\ i > 1
          /\ trace[i - 1].ev = "info_delete"
          /\ trace[i - 1].key = trace[i].key

\* C10 as amended: a Deleting record is made only at a check that found the
\* object older than the threshold, and at most once per listing of a
\* resolved path; every delete call comes right after the record of its
\* object, so in execute mode there is one record per deleted object; in a
\* dry run an object listed under several resolved paths or arguments is
\* reported once for each of those listings.
ReportThenDelete ==
    /\ \A i \in Indices("info_delete") : trace[i].delta > time_old.minutes
    /\ \A i \in Indices("info_delete"), j \in Indices("info_delete") :
          (i # j /\ trace[i].key = trace[j].key)
              => <<trace[i].arg, trace[i].path>> # <<trace[j].arg, trace[j].path>>
    /\ \A i \in Indices("delete") :
          /\ i > 1
          /\ trace[i - 1].ev = "info_delete"
          /\ trace[i - 1].key = trace[i].key
    /\ ~options.test =>
          /\ \A name \in KeyNames : Reports(name) <= 1
          /\ \A i \in Indices("info_delete") :
                IF i = Len(trace) THEN pc = "delete"
                ELSE trace[i + 1].ev = "delete" /\ trace[i + 1].key = trace[i].key
    /\ pc = "done" =>
          \A o \in store0 :
              (Covered(o) /\ now0 - o.last_modified > time_old.minutes)
                  => Reports(o.name) >= 1

\* a completed execute run that reported and deleted both objects
ReportThenDeleteWitness ==
    /\ ~options.test
    /\ pc = "done"
    /\ \A name \in KeyNames : Reports(name) = 1 /\ DeleteCalls(name) = 1

====
